---------------------------- MODULE Spec2Model ----------------------------
(***************************************************************************)
(* unzboot: extraction of the kernel image carried by an EFI zboot         *)
(* container (src/unzboot.c), and the gunzip harness of                    *)
(* src/test_unzboot.c.                                                     *)
(*                                                                         *)
(* Memory is modelled as byte sequences; C offsets are 0-based, so         *)
(* At(b, k) is b[k] of the C code.  The two entry points of the repository *)
(* are the two kinds of run: main() (mode = "main") and the harness that   *)
(* calls gunzip() directly (mode = "test").                                *)
(***************************************************************************)
EXTENDS Integers, Sequences, FiniteSets, TLC

VARIABLES
    file,       \* the bytes loaded from the input file (harness: the source array)
    mode,       \* "main": unzboot's main();  "test": a direct gunzip() call
    pc,         \* position of the run in the code
    wordLimbs,  \* width of size_t of the build, in 16-bit limbs (2 or 4)
    heap,       \* the two heap blocks: "in" (loaded file), "data" (destination)
    buffer,     \* main's `buffer` pointer: "in", "data" or "NULL"
    size,       \* main's `size`
    data,       \* unpack_efi_zboot_image's `data` pointer
    ploff,      \* unpack_efi_zboot_image's `ploff`
    plsize,     \* unpack_efi_zboot_image's `plsize`
    bytes,      \* unpack_efi_zboot_image's `bytes`
    ret,        \* value returned by unpack_efi_zboot_image (0 until it returns)
    err,        \* diagnostic printed by unpack_efi_zboot_image
    called,     \* decompressor invoked by the dispatcher
    gz,         \* record of the last gunzip() call
    gzArgs,     \* arguments of the gunzip() call (harness: chosen at start)
    arch,       \* architecture found by main
    output,     \* g_file_set_contents calls made on the output file
    exitStatus, \* process exit status ("none" while running)
    uaf         \* a block was read or written through a pointer after its release

vars == <<file, mode, pc, wordLimbs, heap, buffer, size, data, ploff, plsize, bytes,
          ret, err, called, gz, gzArgs, arch, output, exitStatus, uaf>>

-----------------------------------------------------------------------------
(* Program constants *)

ARM64_MAGIC_OFFSET == 56
HEAD_CRC == 2
EXTRA_FIELD == 4
ORIG_NAME == 8
COMMENT == 16
RESERVED == 224
DEFLATED == 8
LOAD_IMAGE_MAX_GUNZIP_BYTES == 268435456
\* sizeof(struct linux_efi_zboot_header): 2+2+4+4+4+8+32+4+4
HeaderSize == 64
\* offsets of the header's fields
OffMsdosMagic == 0
OffZimg == 4
OffPayloadOffset == 8
OffPayloadSize == 12
OffCompressionType == 24
OffLinuxMagic == 56

EFI_PE_MSDOS_MAGIC == <<77, 90>>
EFI_PE_LINUX_MAGIC == <<205, 35, 130, 129>>
ZimgTag == <<122, 105, 109, 103>>
StrGzip == <<103, 122, 105, 112>>
StrZstd == <<122, 115, 116, 100>>
StrZstd22 == <<122, 115, 116, 100, 50, 50>>
Arm64Magic == <<65, 82, 77, 100>>
RiscvMagic == <<82, 83, 67, 5>>

-----------------------------------------------------------------------------
(* Bytes and C library primitives *)

\* b[k] of the C code; a read past the end of the block yields `junk`
At(b, k, junk) == IF k >= 0 /\ k < Len(b) THEN b[k + 1] ELSE junk

\* flags & mask, for a byte and a mask of bits
RECURSIVE BitAnd(_, _)
BitAnd(a, m) ==
    IF a = 0 \/ m = 0 THEN 0
    ELSE (IF (a % 2 = 1) /\ (m % 2 = 1) THEN 1 ELSE 0) + 2 * BitAnd(a \div 2, m \div 2)

\* memcmp(b + off, lit, Len(lit)) == 0
MemEq(b, off, lit) == \A j \in 1..Len(lit) : At(b, off + j - 1, 0) = lit[j]

\* !strcmp((char *)b + off, lit), lit a string literal without NUL inside
StrEq(b, off, lit) ==
    /\ \A j \in 1..Len(lit) : At(b, off + j - 1, 0) = lit[j]
    /\ At(b, off + Len(lit), 0) = 0

\* ldl_le_p: four bytes read as a host-endian (little-endian host) int32_t
ldl_le_p(b, off) ==
    LET b3 == At(b, off + 3, 0)
    IN  At(b, off, 0) + 256 * At(b, off + 1, 0) + 65536 * At(b, off + 2, 0)
        + 16777216 * (IF b3 >= 128 THEN b3 - 256 ELSE b3)

-----------------------------------------------------------------------------
(* size_t arithmetic: a size_t is a little-endian sequence of n 16-bit      *)
(* limbs, so that sums wrap modulo 2^(16 n) as the machine's do.            *)

\* (size_t)v for an int v
ToSizeT(v, n) ==
    [k \in 1..n |->
        IF k = 1 THEN v % 65536
        ELSE IF k = 2 THEN (v \div 65536) % 65536
        ELSE IF v < 0 THEN 65535 ELSE 0]

RECURSIVE AddLimbs(_, _, _, _)
AddLimbs(a, b, k, carry) ==
    IF k > Len(a) THEN <<>>
    ELSE LET s == a[k] + b[k] + carry
         IN  <<s % 65536>> \o AddLimbs(a, b, k + 1, s \div 65536)

\* a + b in size_t (the carry out of the top limb is lost)
SizeTAdd(a, b) == AddLimbs(a, b, 1, 0)

RECURSIVE GtFrom(_, _, _)
GtFrom(a, b, k) ==
    IF k = 0 THEN FALSE
    ELSE IF a[k] # b[k] THEN a[k] > b[k]
    ELSE GtFrom(a, b, k - 1)

\* a > b in size_t
SizeTGt(a, b) == GtFrom(a, b, Len(a))


-----------------------------------------------------------------------------
(* The decompression backends.  zlib and libzstd are outside the           *)
(* repository; what the code relies on is their interface: a stream with   *)
(* an explicit end, decoded from [from, to) into at most cap bytes.  The   *)
(* stand-in stream format is a list of (count, byte) runs closed by a 0    *)
(* count; count 255 is an invalid code.                                    *)

RECURSIVE DecodeRun(_, _, _, _, _, _)
DecodeRun(mem, pos, to, cap, out, junk) ==
    IF pos >= to THEN [st |-> "more_input", out |-> out]
    ELSE LET c == At(mem, pos, junk)
         IN  IF c = 0 THEN [st |-> "end", out |-> out]
             ELSE IF c = 255 THEN [st |-> "corrupt", out |-> out]
             ELSE IF pos + 1 >= to THEN [st |-> "more_input", out |-> out]
             ELSE LET v == At(mem, pos + 1, junk)
                      room == cap - Len(out)
                  IN  IF c > room
                      THEN [st |-> "more_output",
                            out |-> out \o [k \in 1..room |-> v]]
                      ELSE DecodeRun(mem, pos + 2, to, cap,
                                     out \o [k \in 1..c |-> v], junk)

\* inflate(&s, Z_FINISH) with next_in = mem + from, avail_in = to - from,
\* avail_out = cap.  With Z_FINISH zlib reports a stream that did not reach
\* its end (no more input, or no more room for output) as Z_BUF_ERROR.
Inflate(mem, from, to, cap, junk) ==
    LET d == DecodeRun(mem, from, to, cap, <<>>, junk)
    IN  [r   |-> CASE d.st = "end"     -> "Z_STREAM_END"
                   [] d.st = "corrupt" -> "Z_DATA_ERROR"
                   [] OTHER            -> "Z_BUF_ERROR",
         out |-> d.out]

ZstdMagic == <<40, 181, 47, 253>>

\* ZSTD_decompress(dst, cap, mem + from, to - from), its size_t result read
\* as the ssize_t it is assigned to: the byte count, or minus the error code.
ZSTD_decompress(mem, from, to, cap) ==
    IF to - from < 4 THEN [n |-> -72, out |-> <<>>]
    ELSE IF ~MemEq(mem, from, ZstdMagic) THEN [n |-> -10, out |-> <<>>]
    ELSE LET d == DecodeRun(mem, from + 4, to, cap, <<>>, 0)
         IN  [n   |-> CASE d.st = "end"         -> Len(d.out)
                        [] d.st = "more_output" -> -70
                        [] d.st = "more_input"  -> -72
                        [] OTHER                -> -20,
              out |-> d.out]

-----------------------------------------------------------------------------
(* gunzip() *)

\* while (i < srclen && src[i++] != 0) ;   -- the value of i after the loop
RECURSIVE SkipString(_, _, _, _)
SkipString(src, srclen, i, junk) ==
    IF i < srclen
    THEN IF At(src, i, junk) # 0 THEN SkipString(src, srclen, i + 1, junk)
         ELSE i + 1
    ELSE i

\* the result of a gunzip() call that did not reach inflate
GzFail(why, i, reads) ==
    [ret |-> -1, why |-> why, i |-> i, reads |-> reads,
     inflated |-> FALSE, r |-> "none", out |-> <<>>]

\* ExtraOffset with the high byte of the length dropped (sensitivity of C8)
ExtraOffsetLowByte(src, junk) == 12 + At(src, 10, junk)

\* i = 12 + src[10] + (src[11] << 8);
ExtraOffset(src, junk) == 12 + At(src, 10, junk) + 256 * At(src, 11, junk)

\* OutOfData off by one: i > srclen (sensitivity of C10)
OutOfDataOffByOne(i, srclen) == i > srclen

\* if (i >= srclen) goto toosmall;
OutOfData(i, srclen) == i >= srclen

\* GzResult without the test of inflate's status (sensitivity of C3)
GzResultNoCheck(inf, i, reads) ==
    [ret |-> Len(inf.out), why |-> "ok", i |-> i, reads |-> reads,
     inflated |-> TRUE, r |-> inf.r, out |-> inf.out]

\* the test of inflate's status, and dstbytes = s.next_out - dst
GzResult(inf, i, reads) ==
    IF inf.r # "Z_OK" /\ inf.r # "Z_STREAM_END"
    THEN [ret |-> -1, why |-> "inflate", i |-> i, reads |-> reads,
          inflated |-> TRUE, r |-> inf.r, out |-> inf.out]
    ELSE [ret |-> Len(inf.out), why |-> "ok", i |-> i, reads |-> reads,
          inflated |-> TRUE, r |-> inf.r, out |-> inf.out]

\* gunzip(dst, dstlen, src, srclen): src is the memory from the src pointer
\* on, initR what inflateInit2 returns.  The record holds the return value,
\* the offset i, the indices of src the header skipper read, and inflate's
\* status and output.
gunzip(dstlen, src, srclen, initR, junk) ==
    IF srclen < 4 THEN GzFail("toosmall", 10, {})
    ELSE
    LET flags == At(src, 3, junk)
        r0    == {3, 2}
    IN
    IF At(src, 2, junk) # DEFLATED \/ BitAnd(flags, RESERVED) # 0
    THEN GzFail("bad", 10, r0)
    ELSE IF BitAnd(flags, EXTRA_FIELD) # 0 /\ srclen < 12
    THEN GzFail("toosmall", 10, r0)
    ELSE
    LET hasX == BitAnd(flags, EXTRA_FIELD) # 0
        i1 == IF hasX THEN ExtraOffset(src, junk) ELSE 10
        r1 == IF hasX THEN r0 \cup {10, 11} ELSE r0
        i2 == IF BitAnd(flags, ORIG_NAME) # 0
              THEN SkipString(src, srclen, i1, junk) ELSE i1
        i3 == IF BitAnd(flags, COMMENT) # 0
              THEN SkipString(src, srclen, i2, junk) ELSE i2
        r3 == r1 \cup (i1 .. (i3 - 1))
        i4 == IF BitAnd(flags, HEAD_CRC) # 0 THEN i3 + 2 ELSE i3
    IN
    IF OutOfData(i4, srclen) THEN GzFail("toosmall", i4, r3)
    ELSE IF initR # "Z_OK" THEN GzFail("init", i4, r3)
    ELSE
    GzResult(Inflate(src, i4, srclen, dstlen, junk), i4, r3)

\* the gz variable before any gunzip() call
NoGz == [ret |-> 0, why |-> "none", i |-> 0, reads |-> {},
         inflated |-> FALSE, r |-> "none", out |-> <<>>]

-----------------------------------------------------------------------------
(* The heap *)

Block(st, bs, cap) == [st |-> st, bytes |-> bs, cap |-> cap, frees |-> 0]

NoBlock == Block("unalloc", <<>>, 0)

\* g_free(p): a no-op on NULL
g_free(h, p) ==
    IF p = "NULL" THEN h
    ELSE [h EXCEPT ![p].st = "freed", ![p].frees = @ + 1]

\* the block p points to is not live (p is dangling)
Dangling(h, p) == p # "NULL" /\ h[p].st # "live"

\* the bytes p points to
Mem(h, p) == IF p = "NULL" THEN <<>> ELSE h[p].bytes

-----------------------------------------------------------------------------
(* unpack_efi_zboot_image() *)

\* memcmp of the three magic fields: TRUE when all three match
MagicMatches(b) ==
    /\ MemEq(b, OffMsdosMagic, EFI_PE_MSDOS_MAGIC)
    /\ MemEq(b, OffZimg, ZimgTag)
    /\ MemEq(b, OffLinuxMagic, EFI_PE_LINUX_MAGIC)

\* BoundsReject without the two sign tests (sensitivity of C1)
BoundsRejectNoSign(po, ps, sz, n) ==
    SizeTGt(SizeTAdd(ToSizeT(po, n), ToSizeT(ps, n)), ToSizeT(sz, n))

\* ploff < 0 || plsize < 0 || (size_t)ploff + (size_t)plsize > *size
BoundsReject(po, ps, sz, n) ==
    \/ po < 0
    \/ ps < 0
    \/ SizeTGt(SizeTAdd(ToSizeT(po, n), ToSizeT(ps, n)), ToSizeT(sz, n))

\* return v, back in main at the test of the result
Return(v, e) ==
    /\ ret' = v
    /\ err' = e
    /\ pc' = "main_check"

\* if (*size < sizeof(*header)) return 0;
UnpackSize ==
    /\ mode = "main" /\ pc = "unpack_size"
    /\ IF size < HeaderSize
       THEN Return(0, "too_small")
       ELSE pc' = "unpack_magic" /\ UNCHANGED <<ret, err>>
    /\ UNCHANGED <<file, mode, wordLimbs, heap, buffer, size, data, ploff, plsize,
                   bytes, called, gz, gzArgs, arch, output, exitStatus, uaf>>

\* UnpackMagic reporting a foreign file as an error (sensitivity of C2)
UnpackMagicStrict ==
    /\ mode = "main" /\ pc = "unpack_magic"
    /\ IF ~MagicMatches(Mem(heap, buffer))
       THEN Return(-1, "not_zboot")
       ELSE pc' = "unpack_bounds" /\ UNCHANGED <<ret, err>>
    /\ uaf' = (uaf \/ Dangling(heap, buffer))
    /\ UNCHANGED <<file, mode, wordLimbs, heap, buffer, size, data, ploff, plsize,
                   bytes, called, gz, gzArgs, arch, output, exitStatus>>

\* the memcmp()s of the magic fields
UnpackMagic ==
    /\ mode = "main" /\ pc = "unpack_magic"
    /\ IF ~MagicMatches(Mem(heap, buffer))
       THEN Return(0, "not_zboot")
       ELSE pc' = "unpack_bounds" /\ UNCHANGED <<ret, err>>
    /\ uaf' = (uaf \/ Dangling(heap, buffer))
    /\ UNCHANGED <<file, mode, wordLimbs, heap, buffer, size, data, ploff, plsize,
                   bytes, called, gz, gzArgs, arch, output, exitStatus>>

\* ploff, plsize and the bounds check
UnpackBounds ==
    /\ mode = "main" /\ pc = "unpack_bounds"
    /\ ploff' = ldl_le_p(Mem(heap, buffer), OffPayloadOffset)
    /\ plsize' = ldl_le_p(Mem(heap, buffer), OffPayloadSize)
    /\ IF BoundsReject(ploff', plsize', size, wordLimbs)
       THEN Return(-1, "corrupt")
       ELSE pc' = "unpack_alloc" /\ UNCHANGED <<ret, err>>
    /\ uaf' = (uaf \/ Dangling(heap, buffer))
    /\ UNCHANGED <<file, mode, wordLimbs, heap, buffer, size, data, bytes, called,
                   gz, gzArgs, arch, output, exitStatus>>

\* data = g_malloc(LOAD_IMAGE_MAX_GUNZIP_BYTES);
UnpackAlloc ==
    /\ mode = "main" /\ pc = "unpack_alloc"
    /\ data' = "data"
    /\ heap' = [heap EXCEPT !["data"] = Block("live", <<>>, LOAD_IMAGE_MAX_GUNZIP_BYTES)]
    /\ pc' = "unpack_dispatch"
    /\ UNCHANGED <<file, mode, wordLimbs, buffer, size, ploff, plsize, bytes, ret,
                   err, called, gz, gzArgs, arch, output, exitStatus, uaf>>

\* IsGzip comparing only the first four characters (sensitivity of C7)
IsGzipPrefix(b) == MemEq(b, OffCompressionType, StrGzip)

\* header->compression_type is "gzip"
IsGzip(b) == StrEq(b, OffCompressionType, StrGzip)

\* header->compression_type is "zstd22" or "zstd"
IsZstd(b) ==
    \/ StrEq(b, OffCompressionType, StrZstd22)
    \/ StrEq(b, OffCompressionType, StrZstd)

\* the memory from pointer p + off on
MemFrom(b, off) ==
    IF off < 0 \/ off > Len(b) THEN <<>> ELSE SubSeq(b, off + 1, Len(b))

\* the "gzip" branch
UnpackGzip ==
    /\ mode = "main" /\ pc = "unpack_dispatch"
    /\ IsGzip(Mem(heap, buffer))
    /\ \E initR \in {"Z_OK", "Z_MEM_ERROR"}, junk \in {0, 255} :
        LET g == gunzip(LOAD_IMAGE_MAX_GUNZIP_BYTES,
                        MemFrom(Mem(heap, buffer), ploff), plsize, initR, junk)
        IN  /\ gz' = g
            /\ gzArgs' = [dstlen |-> LOAD_IMAGE_MAX_GUNZIP_BYTES,
                          srclen |-> plsize, avail |-> Len(Mem(heap, buffer)) - ploff]
            /\ bytes' = g.ret
            /\ IF g.ret < 0
               THEN /\ heap' = g_free([heap EXCEPT ![data].bytes = g.out], data)
                    /\ Return(-1, "gzip_failed")
               ELSE /\ heap' = [heap EXCEPT ![data].bytes = g.out]
                    /\ pc' = "unpack_free_old"
                    /\ UNCHANGED <<ret, err>>
    /\ called' = "gzip"
    /\ uaf' = (uaf \/ Dangling(heap, buffer) \/ Dangling(heap, data))
    /\ UNCHANGED <<file, mode, wordLimbs, buffer, size, data, ploff, plsize, arch,
                   output, exitStatus>>

\* the "zstd22" / "zstd" branch
UnpackZstd ==
    /\ mode = "main" /\ pc = "unpack_dispatch"
    /\ ~IsGzip(Mem(heap, buffer))
    /\ IsZstd(Mem(heap, buffer))
    /\ LET z == ZSTD_decompress(Mem(heap, buffer), ploff, ploff + plsize,
                                LOAD_IMAGE_MAX_GUNZIP_BYTES)
       IN  /\ bytes' = z.n
           /\ IF z.n < 0
              THEN /\ heap' = g_free([heap EXCEPT ![data].bytes = z.out], data)
                   /\ Return(-1, "zstd_failed")
              ELSE /\ heap' = [heap EXCEPT ![data].bytes = z.out]
                   /\ pc' = "unpack_free_old"
                   /\ UNCHANGED <<ret, err>>
    /\ called' = "zstd"
    /\ uaf' = (uaf \/ Dangling(heap, buffer) \/ Dangling(heap, data))
    /\ UNCHANGED <<file, mode, wordLimbs, buffer, size, data, ploff, plsize, gz,
                   gzArgs, arch, output, exitStatus>>

\* any other compression type
UnpackUnsupported ==
    /\ mode = "main" /\ pc = "unpack_dispatch"
    /\ ~IsGzip(Mem(heap, buffer))
    /\ ~IsZstd(Mem(heap, buffer))
    /\ heap' = g_free(heap, data)
    /\ Return(-1, "unsupported")
    /\ uaf' = (uaf \/ Dangling(heap, buffer))
    /\ UNCHANGED <<file, mode, wordLimbs, buffer, size, data, ploff, plsize, bytes,
                   called, gz, gzArgs, arch, output, exitStatus>>

\* g_free(*buffer);
UnpackFreeOld ==
    /\ mode = "main" /\ pc = "unpack_free_old"
    /\ heap' = g_free(heap, buffer)
    /\ pc' = "unpack_realloc"
    /\ UNCHANGED <<file, mode, wordLimbs, buffer, size, data, ploff, plsize, bytes,
                   ret, err, called, gz, gzArgs, arch, output, exitStatus, uaf>>

\* g_realloc(p, n): n = 0 releases the block and yields NULL
g_realloc(h, p, n) ==
    IF n = 0 THEN [h |-> g_free(h, p), p |-> "NULL"]
    ELSE [h |-> [h EXCEPT ![p].cap = n, ![p].bytes = SubSeq(@, 1, n)], p |-> p]

\* *buffer = g_realloc(data, bytes);
UnpackRealloc ==
    /\ mode = "main" /\ pc = "unpack_realloc"
    /\ LET re == g_realloc(heap, data, bytes)
       IN  heap' = re.h /\ buffer' = re.p
    /\ uaf' = (uaf \/ Dangling(heap, data))
    /\ pc' = "unpack_return"
    /\ UNCHANGED <<file, mode, wordLimbs, size, data, ploff, plsize, bytes, ret, err,
                   called, gz, gzArgs, arch, output, exitStatus>>

\* UnpackReturn without the update of *size (sensitivity of C9)
UnpackReturnKeepSize ==
    /\ mode = "main" /\ pc = "unpack_return"
    /\ Return(bytes, "none")
    /\ UNCHANGED <<file, mode, wordLimbs, heap, buffer, size, data, ploff, plsize,
                   bytes, called, gz, gzArgs, arch, output, exitStatus, uaf>>

\* *size = bytes; return bytes;
UnpackReturn ==
    /\ mode = "main" /\ pc = "unpack_return"
    /\ size' = bytes
    /\ Return(bytes, "none")
    /\ UNCHANGED <<file, mode, wordLimbs, heap, buffer, data, ploff, plsize, bytes,
                   called, gz, gzArgs, arch, output, exitStatus, uaf>>

-----------------------------------------------------------------------------
(* main() *)

\* exit(status)
Exit(status) ==
    /\ exitStatus' = status
    /\ pc' = "exit"

\* if (unpack_efi_zboot_image(&buffer, &size) < 0) { g_free(buffer); exit }
MainCheck ==
    /\ mode = "main" /\ pc = "main_check"
    /\ IF ret < 0
       THEN heap' = g_free(heap, buffer) /\ Exit("EXIT_FAILURE")
       ELSE pc' = "main_sniff" /\ UNCHANGED <<heap, exitStatus>>
    /\ UNCHANGED <<file, mode, wordLimbs, buffer, size, data, ploff, plsize, bytes,
                   ret, err, called, gz, gzArgs, arch, output, uaf>>

\* size > ARM64_MAGIC_OFFSET + 4 && memcmp(buffer + ARM64_MAGIC_OFFSET, magic, 4) == 0
HasMagic(b, sz, magic) ==
    sz > ARM64_MAGIC_OFFSET + 4 /\ MemEq(b, ARM64_MAGIC_OFFSET, magic)

\* the architecture the if / else if / else chain of main selects
Sniff(b, sz) ==
    IF HasMagic(b, sz, Arm64Magic) THEN "ARM64"
    ELSE IF HasMagic(b, sz, RiscvMagic) THEN "RISCV"
    ELSE "Unrecognized"

\* the magic checks; the else branch exits without releasing buffer
MainSniff ==
    /\ mode = "main" /\ pc = "main_sniff"
    /\ arch' = Sniff(Mem(heap, buffer), size)
    /\ IF arch' = "Unrecognized"
       THEN Exit("EXIT_FAILURE")
       ELSE pc' = "main_write" /\ UNCHANGED exitStatus
    /\ uaf' = (uaf \/ (size > ARM64_MAGIC_OFFSET + 4 /\ Dangling(heap, buffer)))
    /\ UNCHANGED <<file, mode, wordLimbs, heap, buffer, size, data, ploff, plsize,
                   bytes, ret, err, called, gz, gzArgs, output>>

\* MainWrite going on after a failed write (sensitivity of C5)
MainWriteIgnoreFailure ==
    /\ mode = "main" /\ pc = "main_write"
    /\ \E ok \in BOOLEAN :
        output' = Append(output, [bytes |-> SubSeq(Mem(heap, buffer), 1, size),
                                  ok |-> ok])
    /\ pc' = "main_free"
    /\ uaf' = (uaf \/ Dangling(heap, buffer))
    /\ UNCHANGED <<file, mode, wordLimbs, heap, buffer, size, data, ploff, plsize,
                   bytes, ret, err, called, gz, gzArgs, arch, exitStatus>>

\* g_file_set_contents(output_file, buffer, size) and its failure branch
MainWrite ==
    /\ mode = "main" /\ pc = "main_write"
    /\ \E ok \in BOOLEAN :
        /\ output' = Append(output, [bytes |-> SubSeq(Mem(heap, buffer), 1, size),
                                     ok |-> ok])
        /\ IF ok
           THEN pc' = "main_free" /\ UNCHANGED <<heap, exitStatus>>
           ELSE heap' = g_free(heap, buffer) /\ Exit("EXIT_FAILURE")
    /\ uaf' = (uaf \/ Dangling(heap, buffer))
    /\ UNCHANGED <<file, mode, wordLimbs, buffer, size, data, ploff, plsize, bytes,
                   ret, err, called, gz, gzArgs, arch>>

\* g_free(buffer); exit(EXIT_SUCCESS);
MainFree ==
    /\ mode = "main" /\ pc = "main_free"
    /\ heap' = g_free(heap, buffer)
    /\ Exit("EXIT_SUCCESS")
    /\ UNCHANGED <<file, mode, wordLimbs, buffer, size, data, ploff, plsize, bytes,
                   ret, err, called, gz, gzArgs, arch, output, uaf>>

-----------------------------------------------------------------------------
(* The gunzip harness: dst = g_malloc(dstlen); gunzip(dst, dstlen, src,    *)
(* srclen); g_free(dst).  The source array is block "in".                  *)

TestAlloc ==
    /\ mode = "test" /\ pc = "test_alloc"
    /\ data' = "data"
    /\ heap' = [heap EXCEPT !["data"] = Block("live", <<>>, gzArgs.dstlen)]
    /\ pc' = "test_call"
    /\ UNCHANGED <<file, mode, wordLimbs, buffer, size, ploff, plsize, bytes, ret,
                   err, called, gz, gzArgs, arch, output, exitStatus, uaf>>

TestGunzip ==
    /\ mode = "test" /\ pc = "test_call"
    /\ \E initR \in {"Z_OK", "Z_MEM_ERROR"}, junk \in {0, 255} :
        LET g == gunzip(gzArgs.dstlen, Mem(heap, buffer), gzArgs.srclen, initR, junk)
        IN  /\ gz' = g
            /\ heap' = [heap EXCEPT ![data].bytes = g.out]
    /\ called' = "gzip"
    /\ pc' = "test_free"
    /\ UNCHANGED <<file, mode, wordLimbs, buffer, size, data, ploff, plsize, bytes,
                   ret, err, gzArgs, arch, output, exitStatus, uaf>>

TestFree ==
    /\ mode = "test" /\ pc = "test_free"
    /\ heap' = g_free(heap, data)
    /\ pc' = "test_done"
    /\ UNCHANGED <<file, mode, wordLimbs, buffer, size, data, ploff, plsize, bytes,
                   ret, err, called, gz, gzArgs, arch, output, exitStatus, uaf>>

-----------------------------------------------------------------------------
(* Inputs *)

\* raw (non-container) files have 0..MaxRawLen bytes
MaxRawLen == 66
\* bytes between the container header and the payload: 0..MaxGap
MaxGap == 1
\* bytes after the payload: 0..MaxTrail
MaxTrail == 1
\* length of the gzip extra field of well-formed members: 0..MaxExtra
MaxExtra == 2
\* destination capacities of the harness: 0..MaxDstLen, and 1024
MaxDstLen == 5

Zeros(n) == [k \in 1..n |-> 0]

\* the four bytes of a little-endian 32-bit field holding v >= 0
Le32(v) == <<v % 256, (v \div 256) % 256, (v \div 65536) % 256, v \div 16777216>>

\* fields whose value is negative as an int, or close to INT_MAX:
\* -1, INT_MIN, INT_MAX, -50, INT_MAX - 63
FieldExtremes ==
    {<<255, 255, 255, 255>>, <<0, 0, 0, 128>>, <<255, 255, 255, 127>>,
     <<206, 255, 255, 255>>, <<192, 255, 255, 127>>}

\* stand-in streams: a 61-byte image with the magic at offset 56, the same
\* cut to 60 bytes, an image without magic, an empty output, a short output,
\* an invalid code, a stream without its end
BodyImage(magic) ==
    <<56, 0, 1, magic[1], 1, magic[2], 1, magic[3], 1, magic[4], 1, 0, 0>>
BodyImage60(magic) ==
    <<56, 0, 1, magic[1], 1, magic[2], 1, magic[3], 1, magic[4], 0>>
BodyUnknown == <<61, 7, 0>>
BodyEmpty == <<0>>
BodyShort == <<3, 72, 2, 105, 0>>
BodyCorrupt == <<1, 72, 255, 1, 0>>
BodyTruncated == <<3, 72, 2, 105>>
\* sixteen single-byte runs, as the harness's "Hello Gzip Test\n"
BodyHello == <<1, 72, 1, 101, 1, 108, 1, 108, 1, 111, 1, 32, 1, 71, 1, 122,
               1, 105, 1, 112, 1, 32, 1, 84, 1, 101, 1, 115, 1, 116, 1, 10, 0>>

PipeBodies ==
    {BodyImage(Arm64Magic), BodyImage60(Arm64Magic), BodyImage(RiscvMagic),
     BodyImage60(RiscvMagic), BodyUnknown, BodyEmpty, BodyShort, BodyCorrupt,
     BodyTruncated}

\* the fixed ten bytes of a gzip member
GzHead(method, flags) == <<31, 139, method, flags, 0, 0, 0, 0, 0, 3>>

\* the optional sections the flags announce, the extra field xl bytes long
GzSections(flags, xl) ==
    (IF BitAnd(flags, EXTRA_FIELD) # 0 THEN <<xl, 0>> \o Zeros(xl) ELSE <<>>)
    \o (IF BitAnd(flags, ORIG_NAME) # 0 THEN <<97, 98, 0>> ELSE <<>>)
    \o (IF BitAnd(flags, COMMENT) # 0 THEN <<99, 0>> ELSE <<>>)
    \o (IF BitAnd(flags, HEAD_CRC) # 0 THEN <<17, 34>> ELSE <<>>)

\* the 8-byte trailer (CRC32, ISIZE) of a member
GzTrailer == <<71, 14, 133, 47, 16, 0, 0, 0>>

GzMember(flags, xl, body) ==
    GzHead(DEFLATED, flags) \o GzSections(flags, xl) \o body \o GzTrailer

TestFlags == {0, 1, 2, 4, 8, 16, 12, 24, 30, 31, 32, 68}

\* members whose header lies: an extra length of 1000 with nothing behind
\* it, a name and a comment without their NUL, not a gzip member at all,
\* another compression method
BadMembers ==
    {GzHead(DEFLATED, 4) \o <<232, 3>> \o BodyShort,
     GzHead(DEFLATED, 8) \o <<97, 98>>,
     GzHead(DEFLATED, 24) \o <<97, 0, 99, 100>>,
     GzHead(DEFLATED, 2) \o <<17>>,
     <<1, 2, 3, 4>>,
     GzHead(3, 0) \o BodyShort}

TestMembers ==
    {GzMember(f, xl, b) :
        f \in TestFlags, xl \in 0..MaxExtra,
        b \in {BodyShort, BodyEmpty, BodyCorrupt, BodyTruncated}}
    \cup {GzMember(0, 0, BodyHello), GzMember(0, 0, BodyImage(Arm64Magic))}
    \cup BadMembers

PipePayloads ==
    {GzMember(0, 0, b) : b \in PipeBodies}
    \cup {GzMember(30, MaxExtra, BodyImage(Arm64Magic))}
    \cup {ZstdMagic \o b : b \in PipeBodies}
    \cup {<<>>, <<1, 2, 3, 4>>}

StrBzip2 == <<98, 122, 105, 112, 50>>

\* compression types: the three the code knows, and near misses
CompressionTypes ==
    {StrGzip, StrZstd, StrZstd22, StrBzip2, <<>>, StrGzip \o <<120>>,
     <<103, 122, 105>>, StrZstd \o <<50>>, [k \in 1..32 |-> 103]}

\* a file with the container header, its fields as given, followed by rest
Container(msdos, zimg, po4, ps4, ctype, linux, rest) ==
    msdos \o <<0, 0>> \o zimg \o po4 \o ps4 \o Zeros(8)
    \o ctype \o Zeros(32 - Len(ctype)) \o linux \o Le32(0) \o rest

Zboot(po4, ps4, ctype, rest) ==
    Container(EFI_PE_MSDOS_MAGIC, ZimgTag, po4, ps4, ctype, EFI_PE_LINUX_MAGIC, rest)

\* containers whose fields point exactly at the payload
GoodContainers ==
    {Zboot(Le32(HeaderSize + g), Le32(Len(p)), ct, Zeros(g) \o p \o Zeros(t)) :
        g \in 0..MaxGap, t \in 0..MaxTrail, ct \in CompressionTypes,
        p \in PipePayloads}

\* offsets and sizes tried on a file of L bytes whose payload of P bytes
\* starts at offset o
OffsetFields(L, o) == {Le32(o), Le32(0), Le32(L), Le32(L + 1)} \cup FieldExtremes
SizeFields(L, o, P) ==
    {Le32(P), Le32(0), Le32(L - o), Le32(L - o + 1), Le32(L), Le32(L + 1)}
    \cup FieldExtremes

\* containers whose fields are anything
AnyFieldContainers ==
    UNION { LET rest == Zeros(g) \o p \o Zeros(t)
                L == HeaderSize + Len(rest)
            IN  {Zboot(po4, ps4, ct, rest) :
                    po4 \in OffsetFields(L, HeaderSize + g),
                    ps4 \in SizeFields(L, HeaderSize + g, Len(p))} :
            g \in 0..MaxGap, t \in 0..MaxTrail, ct \in {StrGzip, StrZstd},
            p \in {GzMember(0, 0, BodyImage(Arm64Magic)),
                   ZstdMagic \o BodyImage(RiscvMagic)} }
    \cup {Zboot(Le32(100), Le32(50), StrGzip, Zeros(56))}

\* a good container with one of the three magic fields spoilt
NearContainers ==
    LET p == GzMember(0, 0, BodyImage(Arm64Magic))
    IN  {Container(m, z, Le32(HeaderSize), Le32(Len(p)), StrGzip, l, p) :
            m \in {EFI_PE_MSDOS_MAGIC, <<77, 91>>},
            z \in {ZimgTag, <<122, 105, 109, 71>>},
            l \in {EFI_PE_LINUX_MAGIC, Arm64Magic, RiscvMagic, <<205, 35, 130, 128>>}}

\* files without container header: n bytes, magic at offset 56 if it fits
RawImages ==
    {SubSeq(Zeros(ARM64_MAGIC_OFFSET) \o m \o Zeros(MaxRawLen), 1, n) :
        n \in 0..MaxRawLen, m \in {Arm64Magic, RiscvMagic, Zeros(4)}}

InputFiles == GoodContainers \cup AnyFieldContainers \cup NearContainers \cup RawImages

-----------------------------------------------------------------------------
(* Specification *)

\* main() after g_file_get_contents() loaded the file
MainInit ==
    /\ mode = "main"
    /\ pc = "unpack_size"
    /\ wordLimbs \in {2, 4}
    /\ \E f \in InputFiles :
        /\ file = f
        /\ heap = [b \in {"in", "data"} |->
                     IF b = "in" THEN Block("live", f, Len(f)) ELSE NoBlock]
        /\ size = Len(f)
    /\ buffer = "in"
    /\ gzArgs = [dstlen |-> 0, srclen |-> 0, avail |-> 0]

\* the harness before a gunzip() call
TestInit ==
    /\ mode = "test"
    /\ pc = "test_alloc"
    /\ wordLimbs = 4
    /\ \E f \in TestMembers :
        /\ file = f
        /\ heap = [b \in {"in", "data"} |->
                     IF b = "in" THEN Block("live", f, Len(f)) ELSE NoBlock]
        /\ \E n \in 0..Len(f), d \in (0..MaxDstLen) \cup {1024} :
              gzArgs = [dstlen |-> d, srclen |-> n, avail |-> Len(f)]
    /\ size = 0
    /\ buffer = "in"

Init ==
    /\ MainInit \/ TestInit
    /\ data = "NULL"
    /\ ploff = 0
    /\ plsize = 0
    /\ bytes = 0
    /\ ret = 0
    /\ err = "none"
    /\ called = "none"
    /\ gz = NoGz
    /\ arch = "none"
    /\ output = <<>>
    /\ exitStatus = "none"
    /\ uaf = FALSE

Next ==
    \/ UnpackSize
    \/ UnpackMagic
    \/ UnpackBounds
    \/ UnpackAlloc
    \/ UnpackGzip
    \/ UnpackZstd
    \/ UnpackUnsupported
    \/ UnpackFreeOld
    \/ UnpackRealloc
    \/ UnpackReturn
    \/ MainCheck
    \/ MainSniff
    \/ MainWrite
    \/ MainFree
    \/ TestAlloc
    \/ TestGunzip
    \/ TestFree

Spec == Init /\ [][Next]_vars

-----------------------------------------------------------------------------
(* Properties.  They are stated on the loaded file and on what the run     *)
(* left behind, not on the operators the actions are built from.           *)

\* the file is long enough for the header and carries the three magics
FileIsContainer ==
    /\ Len(file) >= HeaderSize
    /\ SubSeq(file, 1, 2) = <<77, 90>>
    /\ SubSeq(file, 5, 8) = <<122, 105, 109, 103>>
    /\ SubSeq(file, 57, 60) = <<205, 35, 130, 129>>

\* payload_offset and payload_size of the file, as signed 32-bit values
FieldOffset == ldl_le_p(file, OffPayloadOffset)
FieldSize == ldl_le_p(file, OffPayloadSize)

\* payload_offset <= size AND payload_size <= size - payload_offset, neither
\* negative
TwoStepAccepts ==
    /\ FieldOffset >= 0
    /\ FieldSize >= 0
    /\ FieldOffset <= Len(file)
    /\ FieldSize <= Len(file) - FieldOffset

BeforeBounds == {"unpack_size", "unpack_magic", "unpack_bounds"}
InUnpack ==
    {"unpack_bounds", "unpack_alloc", "unpack_dispatch", "unpack_free_old",
     "unpack_realloc", "unpack_return"}
AfterUnpack == {"main_check", "main_sniff", "main_write", "main_free", "exit"}

\* C1: on a file with the container header, control gets past the bounds
\* check (the destination is allocated, a decompressor may be invoked)
\* exactly when the two-step check accepts the fields; otherwise the call
\* returns -1 as a corrupt header, nothing was allocated and no decompressor
\* was invoked.
C1_BoundsCheck ==
    (mode = "main" /\ FileIsContainer /\ pc \notin BeforeBounds) =>
        IF TwoStepAccepts
        THEN /\ err # "corrupt"
             /\ pc = "unpack_alloc" \/ heap["data"].st # "unalloc"
        ELSE /\ ret = -1
             /\ err = "corrupt"
             /\ called = "none"
             /\ data = "NULL"
             /\ heap["data"].st = "unalloc"

\* offset 100, size 50 in a file of 120 bytes was rejected
C1_Witness ==
    /\ mode = "main" /\ FileIsContainer /\ pc = "exit"
    /\ Len(file) = 120 /\ FieldOffset = 100 /\ FieldSize = 50
    /\ err = "corrupt" /\ called = "none" /\ exitStatus = "EXIT_FAILURE"

\* C2: a file that is too short for the header, or lacks one of the magics,
\* is passed through: unpack returns 0, never enters the container path,
\* leaves pointer, contents and size as loaded, and main goes on to
\* classify (and, if recognized, emit) exactly the loaded bytes.
C2_PassThrough ==
    (mode = "main" /\ ~FileIsContainer) =>
        /\ buffer = "in"
        /\ size = Len(file)
        /\ heap["in"].bytes = file
        /\ called = "none"
        /\ heap["data"].st = "unalloc"
        /\ pc \notin InUnpack
        /\ pc \in AfterUnpack =>
              /\ ret = 0
              /\ err = (IF Len(file) < HeaderSize THEN "too_small" ELSE "not_zboot")
        /\ pc \in {"main_check", "main_sniff", "main_write", "main_free"} =>
              heap["in"].st = "live"
        /\ pc = "exit" => arch # "none"
        /\ output # <<>> => output[1].bytes = file

\* a file of header size or more without the magics was emitted unchanged
C2_Witness ==
    /\ mode = "main" /\ ~FileIsContainer /\ Len(file) >= HeaderSize
    /\ exitStatus = "EXIT_SUCCESS" /\ arch = "ARM64"
    /\ output[1].bytes = file

\* the memory gunzip's src points to
GzSrc == IF mode = "test" THEN file ELSE MemFrom(file, ploff)

\* the stream at gunzip's offset decoded without limit on the output
FullDecode ==
    DecodeRun(GzSrc, gz.i, gzArgs.srclen, LOAD_IMAGE_MAX_GUNZIP_BYTES, <<>>, 0)

\* C3: gunzip returns a byte count only when the backend reported the end
\* of the stream, and the count and the bytes are then those of the whole
\* stream; any other backend status, a destination smaller than the whole
\* output, a stream cut before its end and a failed init all return -1.
C3_NoPartialSuccess ==
    called = "gzip" =>
        /\ gz.ret >= -1
        /\ gz.ret >= 0 =>
              /\ gz.inflated
              /\ gz.r = "Z_STREAM_END"
              /\ FullDecode.st = "end"
              /\ gz.out = FullDecode.out
              /\ gz.ret = Len(FullDecode.out)
              /\ gz.ret <= gzArgs.dstlen
        /\ (gz.inflated /\ gz.r # "Z_STREAM_END") => gz.ret = -1
        /\ ~gz.inflated => gz.ret = -1
        /\ (FullDecode.st = "end" /\ Len(FullDecode.out) > gzArgs.dstlen) => gz.ret = -1
        /\ FullDecode.st # "end" => gz.ret = -1

\* a complete stream of 16 bytes into a destination of 5: five bytes were
\* written and the call failed
C3_Witness ==
    /\ mode = "test" /\ pc = "test_done"
    /\ gzArgs.dstlen = 5 /\ gzArgs.srclen = Len(file)
    /\ FullDecode.st = "end" /\ Len(FullDecode.out) = 16
    /\ gz.inflated /\ gz.r = "Z_BUF_ERROR" /\ Len(gz.out) = 5
    /\ gz.ret = -1

\* C4: when main has exited, every block that was allocated (the buffer
\* main owns, the destination of a failed decompression) has been released
\* exactly once.
C4_ReleasedOnce ==
    (mode = "main" /\ pc = "exit") =>
        \A b \in {"in", "data"} :
            heap[b].st # "unalloc" => (heap[b].st = "freed" /\ heap[b].frees = 1)

\* C5: the output file is written at most once, only after unpack returned
\* a non-negative result and the image carries one of the two magics; a run
\* that failed in unpack or in the sniffer wrote nothing and exits non-zero;
\* exit status zero means the one write succeeded.
C5_WriteOrdering ==
    mode = "main" =>
        /\ Len(output) <= 1
        /\ output # <<>> =>
              /\ pc \in {"main_free", "exit"}
              /\ ret >= 0
              /\ err \in {"none", "too_small", "not_zboot"}
              /\ arch \in {"ARM64", "RISCV"}
              /\ Len(output[1].bytes) > 60
              /\ SubSeq(output[1].bytes, 57, 60) \in {Arm64Magic, RiscvMagic}
        /\ pc # "exit" => exitStatus = "none"
        /\ pc = "exit" =>
              /\ exitStatus \in {"EXIT_SUCCESS", "EXIT_FAILURE"}
              /\ exitStatus = "EXIT_SUCCESS" <=> (output # <<>> /\ output[1].ok)
        /\ (pc = "exit" /\ (ret < 0 \/ arch = "Unrecognized"
                            \/ err \in {"corrupt", "unsupported", "gzip_failed",
                                        "zstd_failed"})) =>
              (output = <<>> /\ exitStatus = "EXIT_FAILURE")

\* a gzip payload was unpacked, recognized and written
C5_Witness ==
    /\ mode = "main" /\ pc = "exit" /\ called = "gzip"
    /\ exitStatus = "EXIT_SUCCESS" /\ Len(output) = 1 /\ output[1].ok

\* C6: a final buffer of 60 bytes or more is ARM64 or RISC-V when bytes
\* 56..59 are the magic, unrecognized otherwise; a shorter one is
\* unrecognized.
C6_Sniffer ==
    (mode = "main" /\ arch # "none") =>
        LET b == Mem(heap, buffer)
        IN  arch = IF size >= 60 /\ SubSeq(b, 57, 60) = Arm64Magic THEN "ARM64"
                   ELSE IF size >= 60 /\ SubSeq(b, 57, 60) = RiscvMagic THEN "RISCV"
                   ELSE "Unrecognized"

\* the C string at offset off of b (to the end of b when no NUL follows)
RECURSIVE CStr(_, _)
CStr(b, off) ==
    IF off >= Len(b) \/ b[off + 1] = 0 THEN <<>>
    ELSE <<b[off + 1]>> \o CStr(b, off + 1)

\* C7: once the dispatcher has acted on a validated container, the backend
\* it invoked is the one the compression-type string names ("gzip": gunzip
\* on the payload slice; "zstd", "zstd22": the zstd decompressor; anything
\* else: none, and -1 as unsupported compression); a negative backend
\* result became -1; and after -1 the caller's buffer and size are as
\* loaded and the destination has been released.
C7_Dispatch ==
    (/\ mode = "main" /\ FileIsContainer /\ TwoStepAccepts
     /\ pc \notin BeforeBounds \cup {"unpack_alloc", "unpack_dispatch"}) =>
        LET ct == CStr(file, OffCompressionType)
        IN  /\ called = (IF ct = <<103, 122, 105, 112>> THEN "gzip"
                         ELSE IF ct \in {<<122, 115, 116, 100>>,
                                         <<122, 115, 116, 100, 50, 50>>}
                              THEN "zstd"
                         ELSE "none")
            /\ called = "none" => (ret = -1 /\ err = "unsupported")
            /\ called = "gzip" =>
                  /\ gzArgs.srclen = FieldSize
                  /\ gzArgs.avail = Len(file) - FieldOffset
                  /\ gzArgs.dstlen = LOAD_IMAGE_MAX_GUNZIP_BYTES
                  /\ bytes = gz.ret
            /\ (called = "gzip" /\ bytes < 0) => (ret = -1 /\ err = "gzip_failed")
            /\ (called = "zstd" /\ bytes < 0) => (ret = -1 /\ err = "zstd_failed")
            /\ (called # "none" /\ bytes >= 0) => (ret >= 0 /\ err = "none")
            /\ ret = -1 =>
                  /\ buffer = "in"
                  /\ size = Len(file)
                  /\ heap["in"].bytes = file
                  /\ pc = "main_check" => heap["in"].st = "live"
                  /\ heap["data"].st = "freed" /\ heap["data"].frees = 1

\* a container of type "bzip2" was refused without any backend call
C7_Witness ==
    /\ mode = "main" /\ FileIsContainer /\ TwoStepAccepts /\ pc = "exit"
    /\ CStr(file, OffCompressionType) = <<98, 122, 105, 112, 50>>
    /\ called = "none" /\ err = "unsupported" /\ ret = -1

\* gunzip's view of the member: flag bit, extra length, validity
GzHasFlag(bit) == (GzSrc[4] \div bit) % 2 = 1
GzExtraLen == GzSrc[11] + 256 * GzSrc[12]
GzWellFormed == gzArgs.srclen >= 4 /\ GzSrc[3] = 8 /\ GzSrc[4] < 32

\* the offset behind the NUL-terminated string at from, srclen when the NUL
\* is missing, from itself when from is not inside the slice
AfterString(from) ==
    LET nuls == {k \in from .. (gzArgs.srclen - 1) : GzSrc[k + 1] = 0}
    IN  IF from >= gzArgs.srclen THEN from
        ELSE IF nuls = {} THEN gzArgs.srclen
        ELSE 1 + CHOOSE k \in nuls : \A j \in nuls : k <= j

\* the offset of the stream when the optional sections begin at start
OffsetFrom(start) ==
    LET a == IF GzHasFlag(8) THEN AfterString(start) ELSE start
        b == IF GzHasFlag(16) THEN AfterString(a) ELSE a
    IN  IF GzHasFlag(2) THEN b + 2 ELSE b

\* what C8 says of a call whose extra field moves the offset to afterExtra
HeaderOffsetIs(afterExtra) ==
    (called = "gzip" /\ GzWellFormed) =>
        IF GzHasFlag(4) /\ gzArgs.srclen < 12
        THEN gz.ret = -1 /\ ~gz.inflated /\ gz.why = "toosmall"
        ELSE LET off == OffsetFrom(IF GzHasFlag(4) THEN afterExtra ELSE 10)
             IN  /\ gz.i = off
                 /\ off >= gzArgs.srclen =>
                       (gz.ret = -1 /\ ~gz.inflated /\ gz.why = "toosmall")
                 /\ off < gzArgs.srclen => (gz.inflated \/ gz.why = "init")

\* C8 as stated: the offset starts at 10 and the extra field advances it by
\* 12 + extra_len.
C8_AdvancedBy == HeaderOffsetIs(10 + 12 + GzExtraLen)

\* C8 amended: with the extra-field flag the offset is 12 + extra_len (the
\* default 10 advanced by 2 + extra_len); name and comment each skip one
\* NUL-terminated string (to the end of the slice without NUL), the header
\* CRC adds 2, and an offset >= the length fails without calling inflate.
C8_HeaderOffset == HeaderOffsetIs(12 + GzExtraLen)

\* a member with a 2-byte extra field, name, comment and CRC was inflated
\* from offset 12 + 2 + 3 + 2 + 2
C8_Witness ==
    /\ mode = "test" /\ called = "gzip" /\ GzWellFormed
    /\ GzHasFlag(4) /\ GzHasFlag(8) /\ GzHasFlag(16) /\ GzHasFlag(2)
    /\ GzExtraLen = 2 /\ gz.i = 21 /\ gz.inflated /\ gz.ret >= 0

\* the run is on the path of a successful unpack, the old buffer released
OldReleasedOnSuccess ==
    /\ mode = "main" /\ called # "none" /\ bytes >= 0
    /\ heap["in"].st = "freed"

\* the destination has its final form: shrunk to the produced length (or
\* gone, when nothing was produced)
NewBufferFinal ==
    IF bytes = 0 THEN heap["data"].st = "freed"
    ELSE heap["data"].cap = bytes /\ Len(heap["data"].bytes) = bytes

\* C9 as stated: the old buffer is released only once the new one is
\* decompressed and shrunk to the produced length.
C9_FreedAfterShrink == OldReleasedOnSuccess => NewBufferFinal

\* C9 amended: the old buffer is released only after the decompressor has
\* produced the whole output into the destination (the shrink to the
\* produced length follows the release); once unpack has returned, size is
\* the number of bytes produced and the length of the buffer main owns
\* (NULL for 0 bytes), and no released block is ever read or written.
C9_Replacement ==
    /\ OldReleasedOnSuccess =>
          /\ pc \notin BeforeBounds \cup {"unpack_alloc", "unpack_dispatch",
                                          "unpack_free_old"}
          /\ Len(heap["data"].bytes) = bytes
          /\ called = "gzip" => (bytes = gz.ret /\ heap["data"].bytes = gz.out)
          /\ heap["in"].frees = 1
    /\ (mode = "main" /\ called # "none" /\ bytes >= 0 /\ pc \in AfterUnpack) =>
          /\ heap["in"].st = "freed"
          /\ ret = bytes
          /\ size = bytes
          /\ buffer = (IF bytes = 0 THEN "NULL" ELSE "data")
          /\ NewBufferFinal
          /\ (bytes > 0 /\ pc # "exit") => heap["data"].st = "live"
    /\ ~uaf

\* a 61-byte image replaced the container and is about to be classified
C9_Witness ==
    /\ mode = "main" /\ pc = "main_sniff" /\ called = "gzip"
    /\ heap["in"].st = "freed" /\ buffer = "data"
    /\ size = 61 /\ heap["data"].cap = 61

\* C10: the header skipper reads only inside the slice, inflate is given a
\* non-empty window [i, srclen) with i >= 10, and the slice lies inside the
\* memory it was cut from (in main: inside the loaded file).
C10_ReadBounds ==
    called = "gzip" =>
        /\ \A k \in gz.reads : 0 <= k /\ k < gzArgs.srclen
        /\ gz.inflated => (10 <= gz.i /\ gz.i < gzArgs.srclen)
        /\ gzArgs.srclen >= 0 /\ gzArgs.srclen <= gzArgs.avail
        /\ mode = "main" =>
              /\ ploff >= 0
              /\ gzArgs.srclen = plsize
              /\ ploff + plsize <= Len(file)

\* a name without NUL was skipped to the very end of the slice: the last
\* byte was read, nothing behind it, and inflate was not called
C10_Witness ==
    /\ mode = "test" /\ called = "gzip" /\ GzWellFormed /\ GzHasFlag(8)
    /\ gzArgs.srclen = Len(file)
    /\ (gzArgs.srclen - 1) \in gz.reads
    /\ gz.i = gzArgs.srclen /\ ~gz.inflated /\ gz.ret = -1

=============================================================================
